---- MODULE Spec2Model ----
(***************************************************************************)
(* Model of sunfyre::observer_ptr<T> (src/observer_ptr.hpp).               *)
(*                                                                         *)
(* A program declares a small pool of observer_ptr variables.  Each has a  *)
(* static pointee type (Base, or Derived whose pointer converts to a Base  *)
(* pointer) and, while it is alive, the single member `ptr`.  Every public *)
(* operation of the header is an action; the action records the call, its  *)
(* arguments and its result in `last`, so that properties can relate a     *)
(* result to the state before and after the call.                          *)
(*                                                                         *)
(* Addresses are naturals, Null is the null pointer.  A Derived object at  *)
(* address p has its Base subobject at p + layout, where `layout` is the   *)
(* offset the compiler chose (0 for single inheritance at offset zero, >0  *)
(* e.g. for a second base class); the Derived-to-Base conversion is        *)
(* therefore not the identity on addresses, and null converts to null.     *)
(***************************************************************************)
EXTENDS Integers, FiniteSets

(* ---- bounds ---- *)
NumSlots == 3
MaxAddr == 1
MaxOffset == 1
NumReaders == 2

(* ---- program constants ---- *)
Null == 0

VARIABLES
  ptr,      \* slot -> the member `ptr` of the observer_ptr in that slot
  live,     \* the slots that hold a constructed observer_ptr
  layout,   \* offset of the Base subobject inside a Derived object
  last,     \* the most recent call: operation, operands, argument, results
  halted    \* the process trapped while dereferencing a null pointer

vars == <<ptr, live, layout, last, halted>>

Slots == 1..NumSlots
Readers == 1..NumReaders
Types == {"Base", "Derived"}

\* The template argument T of each declared variable: odd slots are
\* observer_ptr<Base>, even slots observer_ptr<Derived>.
wtype(s) == IF s % 2 = 1 THEN "Base" ELSE "Derived"

\* Addresses a T* can hold: Derived objects live at 1..MaxAddr, a Base* may
\* also point at the Base subobject of a Derived object.
AddrsOf(t) == IF t = "Derived" THEN 0..MaxAddr ELSE 0..(MaxAddr + MaxOffset)

\* std::is_convertible<W2*, element_type*>
is_convertible(from, to) == from = to \/ (from = "Derived" /\ to = "Base")

\* Implicit pointer conversion from `from`* to `to`* (requires convertibility).
Convert(p, from, to) == IF from = to \/ p = Null THEN p ELSE p + layout

\* std::common_type_t<W1*, W2*>: the composite pointer type.
common_type(t1, t2) == IF t1 = t2 THEN t1 ELSE "Base"

\* Built-in p1 == p2 on raw pointers of types t1*, t2*.
PtrEq(p1, t1, p2, t2) ==
  LET c == common_type(t1, t2) IN Convert(p1, t1, c) = Convert(p2, t2, c)

\* std::less<W3>()(p1, p2) with W3 the common pointer type.
PtrLess(p1, t1, p2, t2) ==
  LET c == common_type(t1, t2) IN Convert(p1, t1, c) < Convert(p2, t2, c)

\* std::hash<T*>()(p): some deterministic function of the address.
std_hash(p) == (p * 31 + 7) % 65536

\* The record of a call: the operation, its operand(s), its address argument,
\* the address or bool it returned, the reader that issued it and, for a
\* comparison of two observer_ptr, the results of the six operators.  For
\* release, `arg` keeps what get() returned just before the call; for reset,
\* `rt` tells that the argument is the address returned by a release() of a
\* same-typed observer_ptr in the step right before (a round trip).
NoCmp == [eq |-> FALSE, ne |-> FALSE, lt |-> FALSE, gt |-> FALSE, le |-> FALSE, ge |-> FALSE]
Call(op, w, w2, arg, ret, rb, rd) ==
  [op |-> op, w |-> w, w2 |-> w2, arg |-> arg, ret |-> ret, rb |-> rb, rd |-> rd,
   cmp |-> NoCmp, rt |-> FALSE]

(* ======================= member functions =========================== *)

\* get(): the held address.
get(w) == ptr[w]

\* reset(p): the member after `this->ptr = p`.
reset_prev(w, p) == IF ptr[w] = Null THEN [ptr EXCEPT ![w] = p] ELSE ptr
reset(w, p) == [ptr EXCEPT ![w] = p]

\* release(): p = get(); reset(); return p.
release_keep(w) == [ret |-> get(w), ptr |-> ptr]
release_late(w) == [ret |-> reset(w, Null)[w], ptr |-> reset(w, Null)]
release(w) == [ret |-> get(w), ptr |-> reset(w, Null)]

\* swap(other): std::swap(this->ptr, other.ptr).
swap_half(a, b) == [ptr EXCEPT ![a] = ptr[b]]
swap(a, b) == [ptr EXCEPT ![a] = ptr[b], ![b] = ptr[a]]

\* std::swap(lhs, rhs): lhs.swap(rhs).
std_swap(a, b) == swap(a, b)

\* operator bool
operator_bool(w) == get(w) # Null

\* operator*: a reference to the object at get(); the reference is
\* identified with the address of the object it refers to.
operator_deref(w) == get(w)

\* operator->
operator_arrow(w) == get(w)

\* explicit operator element_type*
operator_element_ptr(w) == get(w)

(* ========================= constructors ============================= *)

\* observer_ptr(): ptr(nullptr)
observer_ptr_default == Null

\* observer_ptr(std::nullptr_t): ptr(nullptr)
observer_ptr_nullptr == Null

\* explicit observer_ptr(element_type* p): ptr(p)
observer_ptr_from(p) == p

\* observer_ptr(observer_ptr<W2> other): ptr(other.get()), the initialiser
\* converting W2* to element_type*.
observer_ptr_reinterpret(s, t) == get(s)
observer_ptr_convert(s, t) == Convert(get(s), wtype(s), t)

\* observer_ptr(const observer_ptr&) = default: the member after the copy.
observer_ptr_copy(n, s) == [ptr EXCEPT ![n] = ptr[s]]

\* observer_ptr(observer_ptr&&) = default: moving a raw pointer copies it.
observer_ptr_move_steal(n, s) == [ptr EXCEPT ![n] = ptr[s], ![s] = Null]
observer_ptr_move(n, s) == [ptr EXCEPT ![n] = ptr[s]]

\* make_observer(p): observer_ptr<T>(p)
make_observer(p) == observer_ptr_from(p)

(* ========================= free operators =========================== *)

operator_eq_raw(a, b) == get(a) = get(b)
operator_eq(a, b) == PtrEq(get(a), wtype(a), get(b), wtype(b))

operator_ne(a, b) == ~ operator_eq(a, b)

\* p == nullptr, nullptr == p
operator_eq_null_unneg(w) == operator_bool(w)
operator_eq_null(w) == ~ operator_bool(w)
operator_null_eq(w) == ~ operator_bool(w)

\* p != nullptr, nullptr != p
operator_ne_null(w) == operator_bool(w)
operator_null_ne(w) == operator_bool(w)

operator_lt(a, b) == PtrLess(get(a), wtype(a), get(b), wtype(b))
operator_gt(a, b) == operator_lt(b, a)
operator_le_strict(a, b) == operator_lt(a, b)
operator_le(a, b) == ~ operator_lt(b, a)
operator_ge(a, b) == ~ operator_lt(a, b)

\* std::hash<observer_ptr<T>>::operator()(p): p is passed by value.
hash_call(w) == std_hash(get(w))

(* ============================ actions =============================== *)

Init ==
  /\ ptr = [s \in Slots |-> Null]
  /\ live = {}
  /\ layout \in 0..MaxOffset
  /\ last = Call("start", 1, 1, Null, Null, FALSE, 1)
  /\ halted = FALSE

\* The variable in slot n starts its lifetime holding p.
Construct(n, p, op, s, arg) ==
  /\ ~ halted
  /\ n \notin live
  /\ live' = live \cup {n}
  /\ ptr' = [ptr EXCEPT ![n] = p]
  /\ last' = Call(op, n, s, arg, Null, FALSE, 1)
  /\ UNCHANGED <<layout, halted>>

CtorDefault(n) == Construct(n, observer_ptr_default, "ctor_default", n, Null)

CtorNullptr(n) == Construct(n, observer_ptr_nullptr, "ctor_nullptr", n, Null)

CtorFrom(n, p) == Construct(n, observer_ptr_from(p), "ctor_from", n, p)

MakeObserver(n, p) == Construct(n, make_observer(p), "make_observer", n, p)

\* Chosen by overload resolution only when W2 differs from element_type
\* (otherwise the copy or the move constructor is the better match).
CtorConvert(n, s) ==
  /\ s \in live
  /\ wtype(s) # wtype(n)
  /\ is_convertible(wtype(s), wtype(n))
  /\ Construct(n, observer_ptr_convert(s, wtype(n)), "ctor_convert", s, Null)

CtorCopy(n, s) ==
  /\ ~ halted
  /\ s \in live
  /\ n \notin live
  /\ wtype(s) = wtype(n)
  /\ live' = live \cup {n}
  /\ ptr' = observer_ptr_copy(n, s)
  /\ last' = Call("ctor_copy", n, s, Null, Null, FALSE, 1)
  /\ UNCHANGED <<layout, halted>>

CtorMove(n, s) ==
  /\ ~ halted
  /\ s \in live
  /\ n \notin live
  /\ wtype(s) = wtype(n)
  /\ live' = live \cup {n}
  /\ ptr' = observer_ptr_move(n, s)
  /\ last' = Call("ctor_move", n, s, Null, Null, FALSE, 1)
  /\ UNCHANGED <<layout, halted>>

\* Implicit destructor: the variable's lifetime ends, nothing else happens.
Dtor(w) ==
  /\ ~ halted
  /\ w \in live
  /\ live' = live \ {w}
  /\ ptr' = [ptr EXCEPT ![w] = Null]
  /\ last' = Call("dtor", w, w, Null, Null, FALSE, 1)
  /\ UNCHANGED <<layout, halted>>

Release(w) ==
  /\ ~ halted
  /\ w \in live
  /\ ptr' = release(w).ptr
  /\ last' = Call("release", w, w, get(w), release(w).ret, FALSE, 1)
  /\ UNCHANGED <<live, layout, halted>>

Reset(w, p) ==
  /\ ~ halted
  /\ w \in live
  /\ ptr' = reset(w, p)
  /\ last' = [Call("reset", w, w, p, Null, FALSE, 1) EXCEPT
                !.rt = (last.op = "release" /\ wtype(last.w) = wtype(w) /\ p = last.ret)]
  /\ UNCHANGED <<live, layout, halted>>

\* reset() with the default argument nullptr.
ResetDefault(w) ==
  /\ ~ halted
  /\ w \in live
  /\ ptr' = reset(w, Null)
  /\ last' = Call("reset_default", w, w, Null, Null, FALSE, 1)
  /\ UNCHANGED <<live, layout, halted>>

Swap(a, b) ==
  /\ ~ halted
  /\ a \in live /\ b \in live
  /\ wtype(a) = wtype(b)
  /\ ptr' = swap(a, b)
  /\ last' = Call("swap", a, b, Null, Null, FALSE, 1)
  /\ UNCHANGED <<live, layout, halted>>

StdSwap(a, b) ==
  /\ ~ halted
  /\ a \in live /\ b \in live
  /\ wtype(a) = wtype(b)
  /\ ptr' = std_swap(a, b)
  /\ last' = Call("std_swap", a, b, Null, Null, FALSE, 1)
  /\ UNCHANGED <<live, layout, halted>>

\* The operations of the "Observers" section, the relational operators and
\* the hash functor: all take the observer_ptr as const or by value.
ObserverOps ==
  {"get", "bool", "deref", "arrow", "element_ptr", "hash",
   "eq_null", "null_eq", "ne_null", "null_ne", "compare"}

\* A const member function returning an address (or a hash of it).
ObserveAddr(op, w, r, rd) ==
  /\ ~ halted
  /\ w \in live
  /\ last' = Call(op, w, w, Null, r, FALSE, rd)
  /\ UNCHANGED <<ptr, live, layout, halted>>

\* A const member function or free operator returning a bool.
ObserveBool(op, w, r) ==
  /\ ~ halted
  /\ w \in live
  /\ last' = Call(op, w, w, Null, Null, r, 1)
  /\ UNCHANGED <<ptr, live, layout, halted>>

GetClearing(w, rd) ==
  /\ ~ halted
  /\ w \in live
  /\ ptr' = reset(w, Null)
  /\ last' = Call("get", w, w, Null, get(w), FALSE, rd)
  /\ UNCHANGED <<live, layout, halted>>
Get(w, rd) == ObserveAddr("get", w, get(w), rd)

OperatorBool(w) == ObserveBool("bool", w, operator_bool(w))

\* Dereferencing an empty observer_ptr is undefined: the build either traps
\* or hands back a reference bound to the null address.
OperatorDeref(w) ==
  \/ /\ w \in live
     /\ get(w) # Null
     /\ ObserveAddr("deref", w, operator_deref(w), 1)
  \/ /\ ~ halted
     /\ w \in live
     /\ get(w) = Null
     /\ \E trap \in BOOLEAN :
          /\ halted' = trap
          /\ last' = Call("deref", w, w, Null, operator_deref(w), FALSE, 1)
     /\ UNCHANGED <<ptr, live, layout>>

OperatorArrow(w) == ObserveAddr("arrow", w, operator_arrow(w), 1)

OperatorElementPtr(w) == ObserveAddr("element_ptr", w, operator_element_ptr(w), 1)

Hash(w) == ObserveAddr("hash", w, hash_call(w), 1)

OperatorEqNull(w) == ObserveBool("eq_null", w, operator_eq_null(w))
OperatorNullEq(w) == ObserveBool("null_eq", w, operator_null_eq(w))
OperatorNeNull(w) == ObserveBool("ne_null", w, operator_ne_null(w))
OperatorNullNe(w) == ObserveBool("null_ne", w, operator_null_ne(w))

\* The six relational operators applied to the same pair (a, b); they need
\* W1* and W2* to have a common type.
Compare(a, b) ==
  /\ ~ halted
  /\ a \in live /\ b \in live
  /\ is_convertible(wtype(a), wtype(b)) \/ is_convertible(wtype(b), wtype(a))
  /\ last' = [Call("compare", a, b, Null, Null, FALSE, 1) EXCEPT
                !.cmp = [eq |-> operator_eq(a, b), ne |-> operator_ne(a, b),
                         lt |-> operator_lt(a, b), gt |-> operator_gt(a, b),
                         le |-> operator_le(a, b), ge |-> operator_ge(a, b)]]
  /\ UNCHANGED <<ptr, live, layout, halted>>

Next ==
  \/ \E n \in Slots : CtorDefault(n)
  \/ \E n \in Slots : CtorNullptr(n)
  \/ \E n \in Slots : \E p \in AddrsOf(wtype(n)) : CtorFrom(n, p)
  \/ \E n \in Slots : \E p \in AddrsOf(wtype(n)) : MakeObserver(n, p)
  \/ \E n \in Slots, s \in Slots : CtorConvert(n, s)
  \/ \E n \in Slots, s \in Slots : CtorCopy(n, s)
  \/ \E n \in Slots, s \in Slots : CtorMove(n, s)
  \/ \E w \in Slots : Dtor(w)
  \/ \E w \in Slots : Release(w)
  \/ \E w \in Slots : \E p \in AddrsOf(wtype(w)) : Reset(w, p)
  \/ \E w \in Slots : ResetDefault(w)
  \/ \E a \in Slots, b \in Slots : Swap(a, b)
  \/ \E a \in Slots, b \in Slots : StdSwap(a, b)
  \/ \E w \in Slots, rd \in Readers : Get(w, rd)
  \/ \E w \in Slots : OperatorBool(w)
  \/ \E w \in Slots : OperatorDeref(w)
  \/ \E w \in Slots : OperatorArrow(w)
  \/ \E w \in Slots : OperatorElementPtr(w)
  \/ \E w \in Slots : Hash(w)
  \/ \E w \in Slots : OperatorEqNull(w)
  \/ \E w \in Slots : OperatorNullEq(w)
  \/ \E w \in Slots : OperatorNeNull(w)
  \/ \E w \in Slots : OperatorNullNe(w)
  \/ \E a \in Slots, b \in Slots : Compare(a, b)

Spec == Init /\ [][Next]_vars

TypeOK ==
  /\ live \subseteq Slots
  /\ \A s \in Slots : ptr[s] \in AddrsOf(wtype(s))
  /\ \A s \in Slots \ live : ptr[s] = Null
  /\ layout \in 0..MaxOffset
  /\ halted \in BOOLEAN

(* ============================ properties ============================ *)

\* C1: release() returns the address get() returned immediately before the
\* call and leaves the observer_ptr empty (get() null, bool false); releasing
\* an empty observer_ptr returns null and leaves it empty.
ReleaseReturnsPriorAndEmpties ==
  [][\A w \in Slots :
       (last'.op = "release" /\ last'.w = w) =>
         /\ last'.ret = get(w)
         /\ get(w)' = Null
         /\ ~ operator_bool(w)'
         /\ (get(w) = Null => last'.ret = Null)]_vars

\* C1 witness: a release() just returned a non-null address and the
\* observer_ptr it was called on is now empty.
ReleasedNonEmpty ==
  /\ last.op = "release"
  /\ last.w \in live
  /\ last.ret # Null
  /\ get(last.w) = Null

\* C2: after reset(p) get() is p, after reset() get() is null, whatever the
\* observer_ptr held before.
ResetStoresArgument ==
  [][\A w \in Slots :
       /\ (last'.op = "reset" /\ last'.w = w) => get(w)' = last'.arg
       /\ (last'.op = "reset_default" /\ last'.w = w) => get(w)' = Null]_vars

\* C2 witness: a reset(p) with a non-null p has just stored p.
ResetToAddress ==
  /\ last.op = "reset"
  /\ last.w \in live
  /\ last.arg # Null
  /\ get(last.w) = last.arg

\* C3: a.swap(b) and std::swap(a, b) exchange the two held addresses and
\* change no other observer_ptr; with a = b the address is kept.
SwapExchangesOnly ==
  [][\A a \in Slots, b \in Slots :
       (last'.op \in {"swap", "std_swap"} /\ last'.w = a /\ last'.w2 = b) =>
         /\ get(a)' = get(b)
         /\ get(b)' = get(a)
         /\ \A o \in Slots \ {a, b} : get(o)' = get(o)
         /\ live' = live]_vars

\* C3 witness: std::swap has just exchanged two different addresses of two
\* distinct observer_ptr, one of them empty before or after, while a third
\* observer_ptr holds an address.
SwappedDistinct ==
  /\ last.op = "std_swap"
  /\ last.w # last.w2
  /\ get(last.w) # get(last.w2)
  /\ \E o \in live \ {last.w, last.w2} : get(o) # Null

\* C4: every constructor stores the given address: default and nullptr
\* construction give an empty observer_ptr, construction from p and
\* make_observer(p) give get() == p, copy, move and converting construction
\* from s give get() == s.get() (compared as raw pointers) and leave s alone.
ConstructorsStoreAddress ==
  [][\A n \in Slots :
       last'.w = n =>
         /\ last'.op \in {"ctor_default", "ctor_nullptr"} =>
              n \in live' /\ get(n)' = Null
         /\ last'.op \in {"ctor_from", "make_observer"} =>
              n \in live' /\ get(n)' = last'.arg
         /\ \A s \in Slots :
              (last'.op \in {"ctor_copy", "ctor_move", "ctor_convert"} /\ last'.w2 = s) =>
                /\ n \in live'
                /\ PtrEq(get(n)', wtype(n), get(s), wtype(s))
                /\ get(s)' = get(s)
                /\ s \in live']_vars

\* C4 witness: a converting construction from an observer_ptr<Derived> that
\* holds an object whose Base subobject lies at another address.
ConvertedAdjusted ==
  /\ last.op = "ctor_convert"
  /\ get(last.w2) # Null
  /\ get(last.w) # get(last.w2)

\* C5: a == b iff a.get() == b.get(): two empty observer_ptr are equal, an
\* empty one never equals a non-empty one; a != b iff not a == b.
EqualityByAddress ==
  last.op = "compare" =>
    LET a == last.w
        b == last.w2
    IN /\ last.cmp.eq <=> PtrEq(get(a), wtype(a), get(b), wtype(b))
       /\ (get(a) = Null /\ get(b) = Null) => last.cmp.eq
       /\ ((get(a) = Null) # (get(b) = Null)) => ~ last.cmp.eq
       /\ last.cmp.ne <=> ~ last.cmp.eq

\* C5 witness: an observer_ptr<Derived> and an observer_ptr<Base> holding
\* different raw addresses of the same object compared equal.
EqualAcrossTypes ==
  /\ last.op = "compare"
  /\ wtype(last.w) # wtype(last.w2)
  /\ get(last.w) # Null
  /\ get(last.w) # get(last.w2)
  /\ last.cmp.eq

\* C6: bool(w), w != nullptr and nullptr != w are true iff get() is not
\* null; w == nullptr and nullptr == w are true iff get() is null.
EmptinessTestsAgree ==
  /\ last.op \in {"bool", "ne_null", "null_ne"} => (last.rb <=> get(last.w) # Null)
  /\ last.op \in {"eq_null", "null_eq"} => (last.rb <=> get(last.w) = Null)
  /\ \A w \in live :
       /\ operator_bool(w) <=> get(w) # Null
       /\ operator_ne_null(w) <=> get(w) # Null
       /\ operator_null_ne(w) <=> get(w) # Null
       /\ operator_eq_null(w) <=> get(w) = Null
       /\ operator_null_eq(w) <=> get(w) = Null

\* C6 witness: w == nullptr was just found true on a live observer_ptr.
EmptyEqualsNull ==
  /\ last.op = "eq_null"
  /\ last.w \in live
  /\ last.rb
  /\ get(last.w) = Null

\* C7: the four ordering operators agree with std::less on the held
\* addresses under the common pointer type; exactly one of a < b, a == b,
\* a > b holds, and a <= b iff a < b or a == b.
OrderingByAddress ==
  last.op = "compare" =>
    LET a == last.w
        b == last.w2
        c == last.cmp
        ab == PtrLess(get(a), wtype(a), get(b), wtype(b))
        ba == PtrLess(get(b), wtype(b), get(a), wtype(a))
    IN /\ c.lt <=> ab
       /\ c.gt <=> ba
       /\ c.le <=> ~ ba
       /\ c.ge <=> ~ ab
       /\ Cardinality({x \in {"lt", "eq", "gt"} : c[x]}) = 1
       /\ c.le <=> (c.lt \/ c.eq)

\* C7 witness: two distinct observer_ptr holding the same non-null object
\* compared <= but not <.
LessEqualOnEqual ==
  /\ last.op = "compare"
  /\ last.w # last.w2
  /\ get(last.w) # Null
  /\ last.cmp.le
  /\ ~ last.cmp.lt

\* C8 (as stated): every step that is not a reset or a release of w leaves
\* w.get() unchanged.
OnlyResetReleaseMutate ==
  [][\A w \in live \cap live' :
       ~ (last'.op \in {"reset", "reset_default", "release"} /\ last'.w = w)
         => get(w)' = get(w)]_vars

\* C8 (amended): every step that is not a reset or a release of w, nor a
\* swap (member or std::swap) with w as one of its two operands, leaves
\* w.get() unchanged.
OnlyResetReleaseSwapMutate ==
  [][\A w \in live \cap live' :
       (/\ ~ (last'.op \in {"reset", "reset_default", "release"} /\ last'.w = w)
        /\ ~ (last'.op \in {"swap", "std_swap"} /\ w \in {last'.w, last'.w2}))
         => get(w)' = get(w)]_vars

\* C8 witness: a move construction has just happened and its source still
\* holds its address.
MovedFromKeeps ==
  /\ last.op = "ctor_move"
  /\ get(last.w2) # Null
  /\ get(last.w) = get(last.w2)

\* C9: r = w.release() followed by w2.reset(r) leaves w2.get() equal to
\* what w.get() was before the release (w2 may be w).
ReleaseResetRoundTrip ==
  [][\A w2 \in Slots :
       (/\ last.op = "release"
        /\ last'.op = "reset"
        /\ last'.w = w2
        /\ wtype(w2) = wtype(last.w)
        /\ last'.arg = last.ret)
         => (get(w2)' = last.arg /\ PtrEq(get(w2)', wtype(w2), last.arg, wtype(last.w)))]_vars

\* C9 witness: a reset has just stored the non-null address returned by the
\* release right before it.
RoundTripDone ==
  /\ last.op = "reset"
  /\ last.rt
  /\ last.arg # Null
  /\ get(last.w) = last.arg

\* C10: observer operations (dereference and member access on a non-empty
\* observer_ptr) change no held address; get() returns the held address, so
\* consecutive get() calls on one observer_ptr, by whichever readers, return
\* the same address.
ObserversLeaveState ==
  [][/\ (/\ last'.op \in ObserverOps
         /\ last'.op \in {"deref", "arrow"} => ptr[last'.w] # Null)
          => (ptr' = ptr /\ live' = live)
     /\ \A w \in Slots : (last'.op = "get" /\ last'.w = w) => last'.ret = get(w)
     /\ (last.op = "get" /\ last'.op = "get" /\ last'.w = last.w)
          => last'.ret = last.ret]_vars

\* C10 witness: a second reader has just read a non-null address with get().
SecondReaderGot ==
  /\ last.op = "get"
  /\ last.rd # 1
  /\ last.ret # Null
  /\ last.ret = get(last.w)

====
